---- MODULE Spec2Model ----
(***************************************************************************)
(* Model of dem_getter/dem_getter_merge_warp_function.py: merge_warp_dems, *)
(* a wrapper around gdal.WarpOptions / gdal.Warp.                          *)
(*                                                                         *)
(* Python values: an optional value is a sequence, None == <<>> and a      *)
(* present value v is <<v>>.  A file-system path is the sequence of its    *)
(* components; the PATH string is a sequence of tokens in which ";" is the *)
(* separator character and any other token is one path component.  The    *)
(* interpreter is Python 3 (the ArcGIS Pro environments the source names). *)
(***************************************************************************)
EXTENDS Integers, Sequences, FiniteSets, TLC

VARIABLES
    environ,     \* os.environ: the PATH and PROJ_LIB entries (process wide)
    pc,          \* per thread: the source line the invocation is about to run
    frame,       \* per thread: arguments and locals of the running invocation
    result,      \* per thread: how the last invocation ended
    openDs,      \* the GDAL datasets that are open (not yet released)
    madeDs,      \* how many datasets gdal.Warp has created so far
    calls,       \* per thread: invocations started
    workload,    \* "sequence": one caller; "race": two concurrent callers
    projWrites,  \* history: assignments made to os.environ['PROJ_LIB']
    passed,      \* history, per thread: the options given to gdal.WarpOptions
    warpCalls,   \* history, per thread: gdal.Warp calls of the invocation
    warped       \* history, per thread: what gdal.Warp did in the invocation

vars == <<environ, pc, frame, result, openDs, madeDs, calls, workload,
          projWrites, passed, warpCalls, warped>>

(***************************************************************************)
(* Bounds and input domains                                                *)
(***************************************************************************)
MaxCalls == 2

Threads == {1, 2}

None == <<>>
Some(v) == <<v>>

Sep == ";"
Pardir == ".."
Drive == "C:"
Cwd == <<"C:", "work">>

PathSamples ==
    { None,
      Some(<<>>),
      Some(<<"C:", "env", "Scripts">>),
      Some(<<"C:", "env", ";", "C:", "env", "Library", "bin">>),
      Some(<<"C:", "env", ";", ";", "C:", "sys">>),
      Some(<<"C:", "sys", ";", "bin">>),
      Some(<<"C:", ";", "C:">>) }

ProjLibSamples == { None, Some(<<"C:", "proj">>) }

ExtentSamples ==
    { None, Some(<<<<10, 20>>, <<30, 40>>>>), Some(<<<<0, 5>>, <<1, 7>>>>) }
EPSGSamples == { None, Some(4326), Some(32612) }
PixelSamples == { Some(30) }
NoDataSamples == { Some(0 - 9999) }
CompressionSamples == { None, Some("LZW") }
ThreadSamples == { None, Some(0), Some(1), Some(2), Some(4) }

Args ==
    [ outExtent : ExtentSamples, outEPSG : EPSGSamples,
      pixelSize : PixelSamples, doReturnGdalSourceResult : BOOLEAN,
      resampleAlg : {"cubic"}, noDataValue : NoDataSamples,
      format : {"GTiff"}, compression : CompressionSamples,
      NumThreads : ThreadSamples ]

\* the calls two racing threads make: the geometry and compression arguments
\* left at their defaults
RacingArgs ==
    { a \in Args : a.outExtent = None /\ a.outEPSG = None /\ a.compression = None }

(***************************************************************************)
(* Pure helpers                                                            *)
(***************************************************************************)
Range(s) == { s[i] : i \in 1..Len(s) }

\* str.split(';'): the entries between separators; n separators, n+1 entries
RECURSIVE Split(_)
Split(s) ==
    IF \A i \in 1..Len(s) : s[i] # Sep
    THEN <<s>>
    ELSE LET i == CHOOSE k \in 1..Len(s) :
                      s[k] = Sep /\ \A j \in 1..(k - 1) : s[j] # Sep
         IN  <<SubSeq(s, 1, i - 1)>> \o Split(SubSeq(s, i + 1, Len(s)))

\* os.path.join(a, b) for a relative second argument
Join(a, b) == a \o b

IsAbs(p) == Len(p) > 0 /\ p[1] = Drive

\* os.path.normpath: ".." removes the component before it, never the drive
RECURSIVE Normpath(_, _)
Normpath(done, rest) ==
    IF rest = <<>> THEN done
    ELSE IF Head(rest) = Pardir
         THEN Normpath(IF Len(done) > 1 THEN SubSeq(done, 1, Len(done) - 1)
                       ELSE done, Tail(rest))
         ELSE Normpath(Append(done, Head(rest)), Tail(rest))

\* os.path.abspath
Abspath(p) == Normpath(<<>>, IF IsAbs(p) THEN p ELSE Join(Cwd, p))

\* lines 36-37, applied to the entry line 35 picked
ProjPathOf(env_path) ==
    Join(Abspath(Join(env_path, <<Pardir>>)), <<"share", "proj">>)

\* line 41
ReshapeExtentFlat(e) == <<e[1][1], e[1][2], e[2][1], e[2][2]>>
ReshapeExtent(e) == <<e[1][1], e[2][1], e[1][2], e[2][2]>>

\* line 46
FormatEPSGBare(code) == "EPSG" \o ToString(code)
FormatEPSG(code) == "EPSG:" \o ToString(code)

\* line 51
BaseOptionsUntiled == <<"BIGTIFF=YES">>
BaseOptions == <<"BIGTIFF=YES", "TILED=YES">>

\* line 57
ThreadOption(n) == "NUM_THREADS=" \o ToString(n)

\* line 62
CompressOption(c) == "COMPRESS=" \o c

\* the argument records the callers of a run pass
ArgPool == IF workload = "race" THEN RacingArgs ELSE Args

NoFrame == [ live |-> FALSE ]

NewFrame(a) ==
    [ live |-> TRUE, args |-> a,
      outExtent |-> a.outExtent, outEPSG |-> a.outEPSG,
      NumThreads |-> a.NumThreads,
      bound |-> {},
      proj_path |-> <<>>, creationOptions |-> <<>>, multithread |-> FALSE,
      workingmemory |-> "", wrpOptions |-> None, gridSource |-> None ]

NoResult == [ kind |-> "none" ]
Returned(v, a) == [ kind |-> "returned", value |-> v, args |-> a ]
Raised(e, l, a) == [ kind |-> "raised", exc |-> e, line |-> l, args |-> a ]

NotWarped == [ kind |-> "none" ]

(***************************************************************************)
(* State                                                                   *)
(***************************************************************************)
InitWith(running, load) ==
    /\ workload = load
    /\ environ \in [ PATH : PathSamples, PROJ_LIB : ProjLibSamples ]
    /\ pc = [ t \in Threads |-> IF t \in running THEN "idle" ELSE "off" ]
    /\ frame = [ t \in Threads |-> NoFrame ]
    /\ result = [ t \in Threads |-> NoResult ]
    /\ openDs = {}
    /\ madeDs = 0
    /\ calls = [ t \in Threads |-> 0 ]
    /\ projWrites = 0
    /\ passed = [ t \in Threads |-> None ]
    /\ warpCalls = [ t \in Threads |-> 0 ]
    /\ warped = [ t \in Threads |-> NotWarped ]

\* one thread calling merge_warp_dems again and again
Init == InitWith({1}, "sequence")

\* two threads calling merge_warp_dems concurrently
InitConc == InitWith(Threads, "race")

\* an exception leaves the function: the frame is gone, the caller sees exc
Raise(t, e, l) ==
    /\ pc' = [pc EXCEPT ![t] = "idle"]
    /\ result' = [result EXCEPT ![t] = Raised(e, l, frame[t].args)]
    /\ frame' = [frame EXCEPT ![t] = NoFrame]

Goto(t, l) == pc' = [pc EXCEPT ![t] = l]

(***************************************************************************)
(* Actions                                                                 *)
(***************************************************************************)
\* lines 4-5: the call binds the arguments
Call(t) ==
    /\ pc[t] = "idle"
    /\ calls[1] + calls[2] < MaxCalls
    /\ \E a \in ArgPool : frame' = [frame EXCEPT ![t] = NewFrame(a)]
    /\ Goto(t, "L34")
    /\ calls' = [calls EXCEPT ![t] = @ + 1]
    /\ result' = [result EXCEPT ![t] = NoResult]
    /\ passed' = [passed EXCEPT ![t] = None]
    /\ warpCalls' = [warpCalls EXCEPT ![t] = 0]
    /\ warped' = [warped EXCEPT ![t] = NotWarped]
    /\ UNCHANGED <<environ, openDs, madeDs, workload, projWrites>>

\* line 34 with the test dropped
CheckProjLibAlways(t) ==
    /\ pc[t] = "L34"
    /\ Goto(t, "L35")
    /\ UNCHANGED <<environ, frame, result, openDs, madeDs, calls, workload, projWrites,
                   passed, warpCalls, warped>>

\* line 34: if not('PROJ_LIB' in os.environ)
CheckProjLib(t) ==
    /\ pc[t] = "L34"
    /\ Goto(t, IF environ.PROJ_LIB = None THEN "L35" ELSE "L40")
    /\ UNCHANGED <<environ, frame, result, openDs, madeDs, calls, workload, projWrites,
                   passed, warpCalls, warped>>

\* lines 35-37: os.environ['PATH'].split(';')[1], its parent, share/proj
GuessProjPath(t) ==
    /\ pc[t] = "L35"
    /\ IF environ.PATH = None
       THEN Raise(t, "KeyError", 35)
       ELSE LET entries == Split(environ.PATH[1])
            IN  IF Len(entries) < 2
                THEN Raise(t, "IndexError", 35)
                ELSE /\ frame' = [frame EXCEPT
                            ![t].proj_path = ProjPathOf(entries[2]),
                            ![t].bound = @ \cup {"proj_path"}]
                     /\ Goto(t, "L38")
                     /\ UNCHANGED result
    /\ UNCHANGED <<environ, openDs, madeDs, calls, workload, projWrites, passed,
                   warpCalls, warped>>

\* line 38 extending a value another writer left there
SetProjLibExtend(t) ==
    /\ pc[t] = "L38"
    /\ environ' = [environ EXCEPT !.PROJ_LIB =
                      IF @ = None THEN Some(frame[t].proj_path)
                      ELSE Some(Join(@[1], frame[t].proj_path))]
    /\ projWrites' = projWrites + 1
    /\ Goto(t, "L40")
    /\ UNCHANGED <<frame, result, openDs, madeDs, calls, workload, passed, warpCalls,
                   warped>>

\* line 38: os.environ['PROJ_LIB'] = proj_path
SetProjLib(t) ==
    /\ pc[t] = "L38"
    /\ environ' = [environ EXCEPT !.PROJ_LIB = Some(frame[t].proj_path)]
    /\ projWrites' = projWrites + 1
    /\ Goto(t, "L40")
    /\ UNCHANGED <<frame, result, openDs, madeDs, calls, workload, passed, warpCalls,
                   warped>>

\* lines 40-46: reshape the extent, format the EPSG code
FormatArgs(t) ==
    /\ pc[t] = "L40"
    /\ frame' = [frame EXCEPT
            ![t].outExtent = IF @ = None THEN None ELSE Some(ReshapeExtent(@[1])),
            ![t].outEPSG = IF @ = None THEN None ELSE Some(FormatEPSG(@[1]))]
    /\ Goto(t, "L51")
    /\ UNCHANGED <<environ, result, openDs, madeDs, calls, workload, projWrites,
                   passed, warpCalls, warped>>

\* lines 51-62: creation options and the multithreading locals
\* (line 55, int(NumThreads), leaves an integer thread count as it is)
CreationOptions(t) ==
    /\ pc[t] = "L51"
    /\ LET f == frame[t]
           n == f.NumThreads
           comp == IF f.args.compression = None THEN <<>>
                   ELSE <<CompressOption(f.args.compression[1])>>
       IN  IF n = None
           THEN Raise(t, "TypeError", 53)     \* None > 1
           ELSE /\ frame' = [frame EXCEPT ![t] =
                      IF n[1] > 1
                      THEN [f EXCEPT
                              !.multithread = TRUE,
                              !.workingmemory = "80%",
                              !.creationOptions =
                                  BaseOptions \o <<ThreadOption(n[1])>> \o comp,
                              !.bound = @ \cup {"creationOptions", "multithread",
                                                "workingmemory"}]
                      ELSE [f EXCEPT
                              !.multithread = FALSE,
                              !.creationOptions = BaseOptions \o comp,
                              !.bound = @ \cup {"creationOptions", "multithread"}]]
                /\ Goto(t, "L64")
                /\ UNCHANGED result
    /\ UNCHANGED <<environ, openDs, madeDs, calls, workload, projWrites, passed,
                   warpCalls, warped>>

\* lines 64-76: the keyword arguments of gdal.WarpOptions(...)
WarpOptionsOf(f) ==
    [ outputBounds |-> f.outExtent,
      outputBoundsSRS |-> f.outEPSG,
      format |-> f.args.format,
      xRes |-> f.args.pixelSize,
      yRes |-> f.args.pixelSize,
      resampleAlg |-> f.args.resampleAlg,
      dstSRS |-> f.outEPSG,
      dstNodata |-> f.args.noDataValue,
      srcNodata |-> f.args.noDataValue,
      multithread |-> f.multithread,
      warpMemoryLimit |-> Some(f.workingmemory),
      creationOptions |-> f.creationOptions ]

\* lines 64-76: wrpOptions = gdal.WarpOptions(...); line 74 reads workingmemory,
\* which only line 56 assigns
BuildWarpOptions(t) ==
    /\ pc[t] = "L64"
    /\ IF "workingmemory" \notin frame[t].bound
       THEN /\ Raise(t, "UnboundLocalError", 74)
            /\ UNCHANGED passed
       ELSE /\ frame' = [frame EXCEPT
                  ![t].wrpOptions = Some(WarpOptionsOf(frame[t])),
                  ![t].bound = @ \cup {"wrpOptions"}]
            /\ passed' = [passed EXCEPT ![t] = Some(WarpOptionsOf(frame[t]))]
            /\ Goto(t, "L77")
            /\ UNCHANGED result
    /\ UNCHANGED <<environ, openDs, madeDs, calls, workload, projWrites, warpCalls,
                   warped>>

\* line 77 inside a try/except that drops the failure
WarpSwallow(t) ==
    /\ pc[t] = "L77"
    /\ warpCalls' = [warpCalls EXCEPT ![t] = @ + 1]
    /\ \E outcome \in {"dataset", "null", "raise"} :
         /\ warped' = [warped EXCEPT ![t] =
                CASE outcome = "dataset" -> [ kind |-> "dataset", ds |-> madeDs + 1 ]
                  [] outcome = "null" -> [ kind |-> "null" ]
                  [] outcome = "raise" -> [ kind |-> "raised", exc |-> "RuntimeError" ]]
         /\ IF outcome = "dataset"
            THEN /\ madeDs' = madeDs + 1
                 /\ openDs' = openDs \cup {madeDs + 1}
                 /\ frame' = [frame EXCEPT ![t].gridSource = Some(madeDs + 1),
                                           ![t].bound = @ \cup {"gridSource"}]
            ELSE /\ frame' = [frame EXCEPT ![t].gridSource = None,
                                           ![t].bound = @ \cup {"gridSource"}]
                 /\ UNCHANGED <<madeDs, openDs>>
         /\ Goto(t, "L80")
         /\ UNCHANGED result
    /\ UNCHANGED <<environ, calls, workload, projWrites, passed>>

\* line 77: gridSource = gdal.Warp(outFileName, inFileNames, options=wrpOptions)
\* gdal.Warp is external: it creates and returns a dataset, or returns None
\* (its failure indicator when GDAL exceptions are off), or raises.
Warp(t) ==
    /\ pc[t] = "L77"
    /\ warpCalls' = [warpCalls EXCEPT ![t] = @ + 1]
    /\ \E outcome \in {"dataset", "null", "raise"} :
         /\ warped' = [warped EXCEPT ![t] =
                CASE outcome = "dataset" -> [ kind |-> "dataset", ds |-> madeDs + 1 ]
                  [] outcome = "null" -> [ kind |-> "null" ]
                  [] outcome = "raise" -> [ kind |-> "raised", exc |-> "RuntimeError" ]]
         /\ CASE outcome = "dataset" ->
                   /\ madeDs' = madeDs + 1
                   /\ openDs' = openDs \cup {madeDs + 1}
                   /\ frame' = [frame EXCEPT ![t].gridSource = Some(madeDs + 1),
                                             ![t].bound = @ \cup {"gridSource"}]
                   /\ Goto(t, "L80")
                   /\ UNCHANGED result
              [] outcome = "null" ->
                   /\ frame' = [frame EXCEPT ![t].gridSource = None,
                                             ![t].bound = @ \cup {"gridSource"}]
                   /\ Goto(t, "L80")
                   /\ UNCHANGED <<madeDs, openDs, result>>
              [] outcome = "raise" ->
                   /\ Raise(t, "RuntimeError", 77)
                   /\ UNCHANGED <<madeDs, openDs>>
    /\ UNCHANGED <<environ, calls, workload, projWrites, passed>>

\* lines 80-83 with the dataset still referenced elsewhere
ReturnKeepOpen(t) ==
    /\ pc[t] = "L80"
    /\ result' = [result EXCEPT ![t] =
            Returned(IF frame[t].args.doReturnGdalSourceResult
                     THEN frame[t].gridSource ELSE None, frame[t].args)]
    /\ frame' = [frame EXCEPT ![t] = NoFrame]
    /\ Goto(t, "idle")
    /\ UNCHANGED <<environ, openDs, madeDs, calls, workload, projWrites, passed,
                   warpCalls, warped>>

\* lines 80-83: drop the only reference unless the caller asked for it; return
Return(t) ==
    /\ pc[t] = "L80"
    /\ LET f == frame[t]
       IN  IF ~ f.args.doReturnGdalSourceResult
           THEN /\ openDs' = openDs \ Range(f.gridSource)
                /\ result' = [result EXCEPT ![t] = Returned(None, f.args)]
           ELSE /\ openDs' = openDs
                /\ result' = [result EXCEPT ![t] = Returned(f.gridSource, f.args)]
    /\ frame' = [frame EXCEPT ![t] = NoFrame]
    /\ Goto(t, "idle")
    /\ UNCHANGED <<environ, madeDs, calls, workload, projWrites, passed, warpCalls,
                   warped>>

Next ==
    \E t \in Threads :
        \/ Call(t)
        \/ CheckProjLib(t)
        \/ GuessProjPath(t)
        \/ SetProjLib(t)
        \/ FormatArgs(t)
        \/ CreationOptions(t)
        \/ BuildWarpOptions(t)
        \/ Warp(t)
        \/ Return(t)

Spec == Init /\ [][Next]_vars

SpecConc == InitConc /\ [][Next]_vars

(***************************************************************************)
(* Properties                                                              *)
(***************************************************************************)
\* thread t has an invocation, running or ended
Started(t) == frame[t].live \/ result[t].kind # "none"

\* the arguments of thread t's invocation
ArgsOf(t) == IF frame[t].live THEN frame[t].args ELSE result[t].args

Ended(t) == result[t].kind # "none"

\* thread t's invocation has left the WarpOptions call of lines 64-76 behind,
\* or ended after the PROJ_LIB step of lines 34-38
PastOptions(t) ==
    \/ pc[t] \in {"L77", "L80"}
    \/ result[t].kind = "returned"
    \/ result[t].kind = "raised" /\ result[t].line # 35

ThreadsOff(n) == n = None \/ n[1] <= 1

\* C1: an invocation whose NumThreads is absent or <= 1 passes multithread =
\* False and no warpMemoryLimit to gdal.WarpOptions; one whose NumThreads is
\* > 1 passes multithread = True, warpMemoryLimit = "80%" and a creation
\* option "NUM_THREADS=<NumThreads>".
C1_ThreadOptions ==
    \A t \in Threads :
        (Started(t) /\ PastOptions(t)) =>
            LET n == ArgsOf(t).NumThreads
            IN  /\ passed[t] # None
                /\ IF ThreadsOff(n)
                   THEN /\ passed[t][1].multithread = FALSE
                        /\ passed[t][1].warpMemoryLimit = None
                   ELSE /\ passed[t][1].multithread = TRUE
                        /\ passed[t][1].warpMemoryLimit = Some("80%")
                        /\ ("NUM_THREADS=" \o ToString(n[1]))
                               \in Range(passed[t][1].creationOptions)

\* C2: an invocation that leaves NumThreads at its default (None) does not
\* fail with a TypeError at the comparison of line 53; it goes on to call
\* gdal.Warp with multithreading disabled.
C2_AbsentThreadCount ==
    \A t \in Threads :
        (Ended(t) /\ PastOptions(t) /\ ArgsOf(t).NumThreads = None) =>
            /\ ~ (result[t].kind = "raised" /\ result[t].exc = "TypeError")
            /\ warpCalls[t] = 1
            /\ passed[t] # None
            /\ passed[t][1].multithread = FALSE

\* C3: an invocation that returns with doReturnGdalSourceResult = False has
\* released the dataset gdal.Warp gave it and returns None; one that returns
\* with doReturnGdalSourceResult = True returns exactly what gdal.Warp gave
\* it, and that dataset is still open.
C3_HandleLifetime ==
    \A t \in Threads :
        result[t].kind = "returned" =>
            IF ~ result[t].args.doReturnGdalSourceResult
            THEN /\ result[t].value = None
                 /\ warped[t].kind = "dataset" => warped[t].ds \notin openDs
            ELSE /\ warped[t].kind = "dataset" =>
                        /\ result[t].value = Some(warped[t].ds)
                        /\ warped[t].ds \in openDs
                 /\ warped[t].kind = "null" => result[t].value = None

\* a dataset was returned to the caller by one invocation and is open, the
\* next invocation released its own and returned None
C3_Witness ==
    /\ result[1].kind = "returned"
    /\ ~ result[1].args.doReturnGdalSourceResult
    /\ warped[1].kind = "dataset"
    /\ warped[1].ds = 2
    /\ openDs = {1}

\* C4: the outputBounds passed to gdal.WarpOptions are (minX, minY, maxX, maxY)
\* of the outExtent ((minX, maxX), (minY, maxY)) given, and None when no
\* outExtent is given.
C4_OutputBounds ==
    \A t \in Threads :
        passed[t] # None =>
            LET e == ArgsOf(t).outExtent
            IN  IF e = None
                THEN passed[t][1].outputBounds = None
                ELSE LET minX == e[1][1][1]
                         maxX == e[1][1][2]
                         minY == e[1][2][1]
                         maxY == e[1][2][2]
                     IN  passed[t][1].outputBounds = Some(<<minX, minY, maxX, maxY>>)

\* the extent ((10, 20), (30, 40)) was passed as (10, 30, 20, 40)
C4_Witness ==
    \E t \in Threads :
        /\ passed[t] # None
        /\ ArgsOf(t).outExtent = Some(<<<<10, 20>>, <<30, 40>>>>)
        /\ passed[t][1].outputBounds = Some(<<10, 30, 20, 40>>)

\* C5: with outEPSG = c given, "EPSG:<c>" is passed to gdal.WarpOptions both
\* as outputBoundsSRS and as dstSRS; with no outEPSG both are None.
C5_EPSGString ==
    \A t \in Threads :
        passed[t] # None =>
            LET c == ArgsOf(t).outEPSG
                want == IF c = None THEN None ELSE Some("EPSG:" \o ToString(c[1]))
            IN  /\ passed[t][1].outputBoundsSRS = want
                /\ passed[t][1].dstSRS = want

\* outEPSG = 4326 was passed as "EPSG:4326" in both places
C5_Witness ==
    \E t \in Threads :
        /\ passed[t] # None
        /\ ArgsOf(t).outEPSG = Some(4326)
        /\ passed[t][1].dstSRS = Some("EPSG:4326")
        /\ passed[t][1].outputBoundsSRS = Some("EPSG:4326")

IsCompressEntry(s) ==
    \E c \in CompressionSamples : c # None /\ s = "COMPRESS=" \o c[1]

\* C6: the creationOptions passed to gdal.WarpOptions always contain
\* "BIGTIFF=YES" and "TILED=YES", and contain a "COMPRESS=<name>" entry exactly
\* when the compression argument is given (and then for that name).
C6_CreationOptions ==
    \A t \in Threads :
        passed[t] # None =>
            LET co == Range(passed[t][1].creationOptions)
                c == ArgsOf(t).compression
            IN  /\ "BIGTIFF=YES" \in co
                /\ "TILED=YES" \in co
                /\ (\E o \in co : IsCompressEntry(o)) <=> (c # None)
                /\ c # None => ("COMPRESS=" \o c[1]) \in co

\* a call with compression = "LZW" and NumThreads = 4 passed its four creation
\* options and ended
C6_Witness ==
    \E t \in Threads :
        /\ passed[t] # None
        /\ ArgsOf(t).compression = Some("LZW")
        /\ passed[t][1].creationOptions =
               <<"BIGTIFF=YES", "TILED=YES", "NUM_THREADS=4", "COMPRESS=LZW">>
        /\ Ended(t)

\* C7: an invocation calls gdal.Warp at most once, and a failure of that call
\* reaches the caller as it is: the exception gdal.Warp raised is the
\* exception the invocation ends with, and the None it returned is returned.
C7_NoRetryNoCatch ==
    \A t \in Threads :
        /\ warpCalls[t] <= 1
        /\ warped[t].kind = "raised" =>
               /\ result[t].kind = "raised"
               /\ result[t].exc = warped[t].exc
               /\ result[t].line = 77
        /\ (warped[t].kind = "null" /\ Ended(t)) =>
               /\ result[t].kind = "returned"
               /\ result[t].value = None

\* gdal.Warp raised and the invocation ended with that exception
C7_Witness ==
    \E t \in Threads :
        /\ warped[t].kind = "raised"
        /\ warpCalls[t] = 1
        /\ result[t].kind = "raised"
        /\ result[t].exc = "RuntimeError"

\* C8: over a sequence of invocations, a PROJ_LIB that is set is never
\* changed, and PROJ_LIB is assigned at most once.
C8_ProjLibSetOnce ==
    [][ /\ environ.PROJ_LIB # None => environ'.PROJ_LIB = environ.PROJ_LIB
        /\ projWrites' <= 1 ]_vars

\* the first invocation set PROJ_LIB, a later one started with it set and
\* ran to its return
C8_Witness ==
    /\ projWrites = 1
    /\ calls[1] >= 2
    /\ result[1].kind = "returned"
    /\ environ.PROJ_LIB # None

\* the value one invocation running alone assigns to PROJ_LIB
SoloProjLib == Some(ProjPathOf(Split(environ.PATH[1])[2]))

\* C9: when invocations race on an unset PROJ_LIB, every one of them computes
\* the same value from the PATH (which no step changes), so PROJ_LIB ends as
\* the value a single invocation would have assigned, and a PROJ_LIB that is
\* set never changes its value.
C9_RaceIdempotent ==
    [][ /\ environ'.PATH = environ.PATH
        /\ environ.PROJ_LIB # None => environ'.PROJ_LIB = environ.PROJ_LIB
        /\ projWrites' >= 1 => environ'.PROJ_LIB = SoloProjLib
        /\ \A t \in Threads :
               pc'[t] = "L38" => Some(frame'[t].proj_path) = SoloProjLib ]_vars

\* both threads saw PROJ_LIB unset and both assigned it
C9_Witness ==
    /\ projWrites = 2
    /\ calls[1] = 1
    /\ calls[2] = 1
    /\ environ.PROJ_LIB # None

\* PATH holds fewer than two ';'-separated entries (none at all when unset)
ShortPath == environ.PATH = None \/ Len(Split(environ.PATH[1])) < 2

\* the lookup errors of line 35: a missing PATH, a missing second entry
LookupErrors == {"KeyError", "IndexError"}

\* C10: an invocation that finds PROJ_LIB unset and fewer than two entries in
\* PATH ends with an index (lookup) error before gdal.Warp is called and
\* leaves PROJ_LIB unset; no other invocation fails in the wrapper's own code
\* before gdal.Warp is called.
C10_OnlyHeuristicFails ==
    \A t \in Threads :
        Ended(t) =>
            /\ (environ.PROJ_LIB = None /\ ShortPath) =>
                   /\ result[t].kind = "raised"
                   /\ result[t].exc \in LookupErrors
                   /\ result[t].line = 35
                   /\ warpCalls[t] = 0
            /\ (result[t].kind = "raised" /\ warpCalls[t] = 0) =>
                   /\ result[t].exc \in LookupErrors
                   /\ result[t].line = 35
                   /\ environ.PROJ_LIB = None
                   /\ ShortPath

====
